---- MODULE Spec2Model ----
(***************************************************************************)
(* Model of src/nn.py: SimpleNetwork, a feedforward network of sigmoid     *)
(* units without bias terms, its forward pass, its manual backpropagation  *)
(* and its full-batch gradient descent.                                    *)
(*                                                                         *)
(* float64 values are modelled as fixed-point numbers (an integer count of *)
(* 1/ONE units) and the code NaN; a numpy array is a record of its shape   *)
(* (r, c) and its rows d, so that (m, 0) and (0, m) arrays are distinct.   *)
(* Python exceptions are modelled as the "err" field of a result.          *)
(***************************************************************************)
EXTENDS Integers, Sequences, FiniteSets, TLC

(* ------------------------------------------------------------------ *)
(* float64 scalars                                                     *)
(* ------------------------------------------------------------------ *)

\* The fixed-point representation of the float 1.0.
ONE == 1000

\* NaN is a reserved code outside the range of the finite values.
NaN == -(2 ^ 30)

Abs(n) == IF n < 0 THEN -n ELSE n

\* n / d rounded to the nearest unit (d > 0).
Rnd(n, d) == (n + d \div 2) \div d

FAdd(a, b) == IF a = NaN \/ b = NaN THEN NaN ELSE a + b
FSub(a, b) == IF a = NaN \/ b = NaN THEN NaN ELSE a - b
FMul(a, b) == IF a = NaN \/ b = NaN THEN NaN ELSE Rnd(a * b, ONE)

\* x / n for a float x and a Python int n >= 0. numpy's default error state
\* only warns on a zero divisor: 0 / 0 is nan. (x / 0 for x # 0 would be
\* +-inf; the only divisor in nn.py is the batch size, and when it is 0 the
\* numerator is a sum over an empty batch, 0 or nan.)
FDivInt(a, n) ==
    IF a = NaN \/ n = 0 THEN NaN ELSE Rnd(a, n)

\* e^y for |y| <= ONE/2, by its Taylor polynomial of degree 5 (Horner).
ExpTaylor(y) ==
    LET h5 == ONE + Rnd(y, 5)
        h4 == ONE + Rnd(y * h5, 4 * ONE)
        h3 == ONE + Rnd(y * h4, 3 * ONE)
        h2 == ONE + Rnd(y * h3, 2 * ONE)
    IN  ONE + Rnd(y * h2, ONE)

\* np.exp on the fixed-point grid: e^x = e^h * e^h * e^(x - 2h), h = x / 2.
RECURSIVE Exp(_)
Exp(x) ==
    IF Abs(x) <= ONE \div 2
    THEN ExpTaylor(x)
    ELSE LET h == Exp(x \div 2)
         IN  Rnd(Rnd(h * h, ONE) * ExpTaylor(x - 2 * (x \div 2)), ONE)

\* Beyond this magnitude e^-x is below the grid's resolution (or 1/(1+e^-x)
\* is): the sigmoid is saturated at 1 (or 0), as float64 saturates it.
SATURATION == 7 * ONE

\* sigmoid: 1 / (1 + np.exp(-x)), on one float.
sigmoid1(x) ==
    IF x = NaN THEN NaN
    ELSE IF x > SATURATION THEN ONE
    ELSE IF x < -SATURATION THEN 0
    ELSE Rnd(ONE * ONE, ONE + Exp(-x))

\* sigmoid_derivative: sig * (1 - sig), on one float.
sigmoid_derivative1(x) ==
    LET sig == sigmoid1(x)
    IN  FMul(sig, FSub(ONE, sig))

(* ------------------------------------------------------------------ *)
(* numpy 2-D arrays                                                    *)
(* ------------------------------------------------------------------ *)

\* The array of shape (r, c) with the given rows.
MatOf(r, c, rows) ==
    [r |-> r, c |-> c, d |-> [i \in 1..r |-> [j \in 1..c |-> rows[i][j]]]]

\* Python's None, where an array is expected.
None == [r |-> -1, c |-> -1, d |-> <<>>]

Shape(A) == <<A.r, A.c>>

\* A call's outcome: the value it returns, or the exception it raises.
Ok(v) == [err |-> "none", val |-> v]
Raise(e) == [err |-> e, val |-> None]

\* A.T
Transpose(A) ==
    [r |-> A.c, c |-> A.r, d |-> [i \in 1..A.c |-> [j \in 1..A.r |-> A.d[j][i]]]]

RECURSIVE SumTo(_, _)
\* f[1] + ... + f[n], the empty sum being 0.0
SumTo(f, n) == IF n = 0 THEN 0 ELSE FAdd(SumTo(f, n - 1), f[n])

\* The largest s with s * s <= v.
ISqrt(v) == CHOOSE s \in 0..(3 * ONE) : s * s <= v /\ (s + 1) * (s + 1) > v

\* math.sqrt of a whole number n <= 9, on the fixed-point grid.
Sqrt(n) == ISqrt(n * ONE * ONE)

\* np.dot(A, B) for 2-D arrays: shapes (m, k) and (k, n) give (m, n), and
\* any other pair raises ValueError (shapes not aligned).
Dot(A, B) ==
    IF A.c # B.r
    THEN Raise("ValueError")
    ELSE Ok([r |-> A.r, c |-> B.c,
             d |-> [i \in 1..A.r |-> [j \in 1..B.c |->
                      SumTo([k \in 1..A.c |-> FMul(A.d[i][k], B.d[k][j])], A.c)]]])

\* numpy broadcasting of one axis: equal lengths, or one of them 1.
BroadcastOk(m, n) == m = n \/ m = 1 \/ n = 1
BroadcastLen(m, n) == IF m = 1 THEN n ELSE m

\* A - B and A * B elementwise, with numpy broadcasting; incompatible
\* shapes raise ValueError (operands could not be broadcast together).
Elementwise(A, B, isMul) ==
    IF ~(BroadcastOk(A.r, B.r) /\ BroadcastOk(A.c, B.c))
    THEN Raise("ValueError")
    ELSE LET r == BroadcastLen(A.r, B.r)
             c == BroadcastLen(A.c, B.c)
             a(i, j) == A.d[IF A.r = 1 THEN 1 ELSE i][IF A.c = 1 THEN 1 ELSE j]
             b(i, j) == B.d[IF B.r = 1 THEN 1 ELSE i][IF B.c = 1 THEN 1 ELSE j]
         IN  Ok([r |-> r, c |-> c,
                 d |-> [i \in 1..r |-> [j \in 1..c |->
                          IF isMul THEN FMul(a(i, j), b(i, j))
                                   ELSE FSub(a(i, j), b(i, j))]]])

\* self.sigmoid(x) on an array.
sigmoid(A) ==
    [r |-> A.r, c |-> A.c, d |-> [i \in 1..A.r |-> [j \in 1..A.c |-> sigmoid1(A.d[i][j])]]]

\* self.sigmoid_derivative(x) on an array.
sigmoid_derivative(A) ==
    [r |-> A.r, c |-> A.c,
     d |-> [i \in 1..A.r |-> [j \in 1..A.c |-> sigmoid_derivative1(A.d[i][j])]]]

\* learning_rate * g, a float times an array.
Scale(s, A) ==
    [r |-> A.r, c |-> A.c, d |-> [i \in 1..A.r |-> [j \in 1..A.c |-> FMul(s, A.d[i][j])]]]

\* 2 * A / n, as in "2 * np.dot(...) / input_matrix.shape[1]".
TwiceOver(A, n) ==
    [r |-> A.r, c |-> A.c,
     d |-> [i \in 1..A.r |-> [j \in 1..A.c |->
              FDivInt(FAdd(A.d[i][j], A.d[i][j]), n)]]]

(* ------------------------------------------------------------------ *)
(* SimpleNetwork: the pure part of its methods                         *)
(* ------------------------------------------------------------------ *)

RECURSIVE ForwardFrom(_, _, _)
\* The loop of predict from the k-th weight matrix on.
ForwardFrom(ws, k, activation) ==
    IF k > Len(ws)
    THEN Ok(activation)
    ELSE LET z == Dot(ws[k], activation)
         IN  IF z.err # "none" THEN z
             ELSE ForwardFrom(ws, k + 1, sigmoid(z.val))

\* predict(input_matrix) on the weights ws.
predict(ws, input_matrix) == ForwardFrom(ws, 1, input_matrix)

\* np.where with ">" for ">=": a prediction of exactly 0.5 gives 0.
WhereAboveHalf(P) ==
    [r |-> P.r, c |-> P.c,
     d |-> [i \in 1..P.r |-> [j \in 1..P.c |->
              IF P.d[i][j] # NaN /\ 2 * P.d[i][j] > ONE THEN 1 ELSE 0]]]

\* np.where(predictions >= 0.5, 1, 0): an int array; nan >= 0.5 is False.
WhereAtLeastHalf(P) ==
    [r |-> P.r, c |-> P.c,
     d |-> [i \in 1..P.r |-> [j \in 1..P.c |->
              IF P.d[i][j] # NaN /\ 2 * P.d[i][j] >= ONE THEN 1 ELSE 0]]]

\* predict_zero_one(input_matrix) on the weights ws.
predict_zero_one(ws, input_matrix) ==
    LET predictions == predict(ws, input_matrix)
    IN  IF predictions.err # "none" THEN predictions
        ELSE Ok(WhereAtLeastHalf(predictions.val))

RECURSIVE ForwardCache(_, _, _, _, _)
\* The forward loop of gradients from the k-th weight matrix on, appending
\* to pre_activations and activations.
ForwardCache(ws, k, activation, pre_activations, activations) ==
    IF k > Len(ws)
    THEN [err |-> "none", pre_activations |-> pre_activations,
          activations |-> activations]
    ELSE LET z == Dot(ws[k], activation)
         IN  IF z.err # "none"
             THEN [err |-> z.err, pre_activations |-> pre_activations,
                   activations |-> activations]
             ELSE ForwardCache(ws, k + 1, sigmoid(z.val),
                               Append(pre_activations, z.val),
                               Append(activations, sigmoid(z.val)))

\* A gradients call's outcome: its list, and how often its backward loop ran.
GradOk(gradients, steps) == [err |-> "none", val |-> gradients, steps |-> steps]
GradRaise(e) == [err |-> e, val |-> <<>>, steps |-> 0]

\* The weight gradient without its factor 2.
WeightGradientOnce(delta, activation, batch) ==
    LET g == Dot(delta, Transpose(activation))
    IN  IF g.err # "none" THEN g
        ELSE Ok([r |-> g.val.r, c |-> g.val.c,
                 d |-> [i \in 1..g.val.r |-> [j \in 1..g.val.c |->
                          FDivInt(g.val.d[i][j], batch)]]])

\* One weight gradient: 2 * np.dot(delta, activation.T) / batch size.
WeightGradient(delta, activation, batch) ==
    LET g == Dot(delta, Transpose(activation))
    IN  IF g.err # "none" THEN g ELSE Ok(TwiceOver(g.val, batch))

\* The delta of layer `layer` from the delta of the layer after it:
\* np.dot(self.layer_weights[layer + 1].T, delta)
\*     * self.sigmoid_derivative(pre_activations[layer])
BackDelta(ws, layer, delta, pre_activations) ==
    LET back == Dot(Transpose(ws[layer + 1]), delta)
    IN  IF back.err # "none" THEN back
        ELSE Elementwise(back.val, sigmoid_derivative(pre_activations[layer]), TRUE)

RECURSIVE BackwardFrom(_, _, _, _, _, _, _)
\* The loop over reversed(range(len(self.layer_weights) - 1)), at `layer`
\* (weight matrices are numbered from 1 here), having run `steps` times.
BackwardFrom(ws, layer, delta, gradients, pre_activations, activations, steps) ==
    IF layer < 1
    THEN GradOk(gradients, steps)
    ELSE LET d == BackDelta(ws, layer, delta, pre_activations)
         IN  IF d.err # "none" THEN GradRaise(d.err)
             ELSE LET g == WeightGradient(d.val, activations[layer], activations[1].c)
                  IN  IF g.err # "none" THEN GradRaise(g.err)
                      ELSE BackwardFrom(ws, layer - 1, d.val,
                                        [gradients EXCEPT ![layer] = g.val],
                                        pre_activations, activations, steps + 1)

\* A backward loop over reversed(range(n - 2)): it never reaches the
\* weight matrix before the last.
FirstBackLayerSkipsOne(n) == n - 2

\* The first layer the backward loop visits: reversed(range(n - 1)) starts
\* at n - 2, the weight matrix before the last.
FirstBackLayer(n) == n - 1

\* gradients(input_matrix, target_output_matrix) on the weights ws.
gradients(ws, input_matrix, target_output_matrix) ==
    LET n == Len(ws)
        fwd == ForwardCache(ws, 1, input_matrix, <<>>, <<input_matrix>>)
    IN  IF fwd.err # "none" THEN GradRaise(fwd.err)
        ELSE
        LET pre_activations == fwd.pre_activations
            activations == fwd.activations
            diff == Elementwise(activations[Len(activations)],
                                target_output_matrix, FALSE)
        IN  IF diff.err # "none" THEN GradRaise(diff.err)
            \* pre_activations[-1] of an empty list
            ELSE IF n = 0 THEN GradRaise("IndexError")
            ELSE
            LET delta == Elementwise(diff.val,
                                     sigmoid_derivative(pre_activations[n]), TRUE)
            IN  IF delta.err # "none" THEN GradRaise(delta.err)
                ELSE
                LET last == WeightGradient(delta.val, activations[n], input_matrix.c)
                IN  IF last.err # "none" THEN GradRaise(last.err)
                    ELSE BackwardFrom(ws, FirstBackLayer(n), delta.val,
                                      [[i \in 1..n |-> None] EXCEPT ![n] = last.val],
                                      pre_activations, activations, 0)

\* "w += g" for "w -= g".
InPlaceAdd(w, g) ==
    LET res == Elementwise(w, Scale(-ONE, g), FALSE)
    IN  IF res.err # "none" \/ Shape(res.val) # Shape(w)
        THEN Raise("ValueError")
        ELSE res

\* "w -= g" on an array: g must broadcast to w's own shape, or the
\* in-place subtraction raises ValueError and w is not written.
InPlaceSub(w, g) ==
    LET res == Elementwise(w, g, FALSE)
    IN  IF res.err # "none" \/ Shape(res.val) # Shape(w)
        THEN Raise("ValueError")
        ELSE res

RECURSIVE UpdateFrom(_, _, _, _)
\* The update loop of train from index i on:
\* self.layer_weights[i] -= learning_rate * grads[i]
UpdateFrom(ws, grads, learning_rate, i) ==
    IF i > Len(ws)
    THEN [err |-> "none", ws |-> ws]
    ELSE LET w == InPlaceSub(ws[i], Scale(learning_rate, grads[i]))
         IN  IF w.err # "none"
             THEN [err |-> w.err, ws |-> ws]
             ELSE UpdateFrom([ws EXCEPT ![i] = w.val], grads, learning_rate, i + 1)

\* uniform(n_in, n_out)'s range: math.sqrt(6) / math.sqrt(n_in + n_out).
epsilon(n_in, n_out) == Rnd(Sqrt(6) * ONE, Sqrt(n_in + n_out))

(* ------------------------------------------------------------------ *)
(* The calls of a client: bounds and argument sets                     *)
(* ------------------------------------------------------------------ *)

\* The largest iteration count a train call is given.
MaxIterations == 2
\* The number of train calls in a run.
MaxTrainCalls == 1

\* Input matrices: a batch of two, whose first column makes every
\* pre-activation of an all-ones layer 0; an empty batch (2, 0); and one
\* with a single row (1, 1).
X22 == MatOf(2, 2, <<<<0, ONE>>, <<0, ONE>>>>)
X20 == MatOf(2, 0, <<<<>>, <<>>>>)
X11 == MatOf(1, 1, <<<<ONE>>>>)
Inputs == {X22, X20, X11}

\* Target matrices: (1, 2), an empty batch (1, 0), (1, 1) and (2, 1).
T12 == MatOf(1, 2, <<<<0, ONE>>>>)
T10 == MatOf(1, 0, <<<<>>>>)
T11 == MatOf(1, 1, <<<<ONE>>>>)
T21 == MatOf(2, 1, <<<<ONE>>, <<0>>>>)
Targets == {T12, T10, T11, T21}

\* Weight lists given to SimpleNetwork(...): 2 -> 1 (all ones), 2 -> 2 -> 1,
\* and a pair that is not chain-compatible.
W1x2 == MatOf(1, 2, <<<<ONE, ONE>>>>)
W2x2 == MatOf(2, 2, <<<<ONE, -ONE>>, <<ONE \div 2, 2 * ONE>>>>)
V1x2 == MatOf(1, 2, <<<<ONE, -2 * ONE>>>>)
ExplicitWeights == { <<W1x2>>, <<W2x2, V1x2>>, <<W1x2, V1x2>> }

\* Layer sizes given to SimpleNetwork.random(...).
LayerUnits == { <<>>, <<2>>, <<1, 1>> }

\* The values np.random.uniform(-epsilon, +epsilon) is taken to draw.
UniformDraws(eps) == {-eps, eps \div 2}

Iterations == -1..MaxIterations
LearningRates == {-(ONE \div 2), 0, ONE \div 2}

(* ------------------------------------------------------------------ *)
(* State                                                               *)
(* ------------------------------------------------------------------ *)

VARIABLES
    pc,                    \* "new", "idle", or the place inside train
    layer_weights,         \* self.layer_weights
    num_layers,            \* self.num_layers
    input_matrix,          \* train's arguments and locals, while it runs
    target_output_matrix,
    iterations,
    learning_rate,
    done,                  \* rounds of train's loop completed
    grads,
    ret,                   \* the last call: its arguments and its outcome
    weights_idle,          \* history: the weights as construction or the
                           \* last train call left them
    weights_before,        \* history: the weights when train was last called
    last_predict,          \* history: the last predict that returned since
                           \* construction or the last train call
    trains                 \* history: the number of train calls so far

vars == <<pc, layer_weights, num_layers, input_matrix, target_output_matrix,
          iterations, learning_rate, done, grads, ret, weights_idle,
          weights_before, last_predict, trains>>

frame == <<input_matrix, target_output_matrix, iterations, learning_rate,
           done, grads>>

NoRet ==
    [op |-> "none", err |-> "none", val |-> None, grads |-> <<>>, steps |-> 0,
     X |-> None, T |-> None, units |-> <<>>, iterations |-> 0,
     learning_rate |-> 0, rounds |-> 0, repeat |-> FALSE, before |-> None]

NoPredict == [X |-> None, val |-> None]

NoFrame ==
    /\ input_matrix' = None
    /\ target_output_matrix' = None
    /\ iterations' = 0
    /\ learning_rate' = 0
    /\ done' = 0
    /\ grads' = <<>>

Init ==
    /\ pc = "new"
    /\ layer_weights = <<>>
    /\ num_layers = 0
    /\ input_matrix = None
    /\ target_output_matrix = None
    /\ iterations = 0
    /\ learning_rate = 0
    /\ done = 0
    /\ grads = <<>>
    /\ ret = NoRet
    /\ weights_idle = <<>>
    /\ weights_before = <<>>
    /\ last_predict = NoPredict
    /\ trains = 0

(* ------------------------------------------------------------------ *)
(* Construction                                                        *)
(* ------------------------------------------------------------------ *)

\* __init__(*layer_weights)
Construct(ws, how, units) ==
    /\ pc = "new"
    /\ pc' = "idle"
    /\ layer_weights' = ws
    /\ num_layers' = Len(ws) + 1
    /\ ret' = [NoRet EXCEPT !.op = how, !.units = units]
    /\ weights_idle' = ws
    /\ UNCHANGED <<frame, weights_before, last_predict, trains>>

ConstructExplicit ==
    \E ws \in ExplicitWeights : Construct(ws, "__init__", <<>>)

\* All arrays of shape (r, c) with entries drawn from D.
ArraysOver(r, c, D) ==
    { [r |-> r, c |-> c, d |-> [i \in 1..r |-> [j \in 1..c |-> f[i][j]]]] :
        f \in [1..r -> [1..c -> D]] }

\* zip(layer_units, layer_units[1:]): the k-th pair, k = 1..len - 1.
pairs(layer_units) ==
    [k \in 1..(IF Len(layer_units) = 0 THEN 0 ELSE Len(layer_units) - 1) |->
        <<layer_units[k], layer_units[k + 1]>>]

RECURSIVE WeightLists(_, _)
\* The lists [uniform(i, o) for i, o in pairs] can be, from pair k on.
WeightLists(ps, k) ==
    IF k > Len(ps)
    THEN {<<>>}
    ELSE { <<w>> \o rest :
             w \in ArraysOver(ps[k][2], ps[k][1],
                              UniformDraws(epsilon(ps[k][1], ps[k][2]))),
             rest \in WeightLists(ps, k + 1) }

\* random(*layer_units)
ConstructRandom ==
    \E layer_units \in LayerUnits :
        \E ws \in WeightLists(pairs(layer_units), 1) :
            Construct(ws, "random", layer_units)

(* ------------------------------------------------------------------ *)
(* Calls that read the network                                         *)
(* ------------------------------------------------------------------ *)

Predict ==
    \E X \in Inputs :
        LET out == predict(layer_weights, X)
        IN  /\ pc = "idle"
            /\ ret' = [NoRet EXCEPT !.op = "predict", !.X = X,
                                    !.err = out.err, !.val = out.val,
                                    !.repeat = (last_predict.X = X),
                                    !.before = IF last_predict.X = X
                                               THEN last_predict.val
                                               ELSE None]
            /\ last_predict' = IF out.err = "none"
                               THEN [X |-> X, val |-> out.val]
                               ELSE last_predict
            /\ UNCHANGED <<pc, layer_weights, num_layers, frame, weights_idle,
                           weights_before, trains>>

PredictZeroOne ==
    \E X \in Inputs :
        LET out == predict_zero_one(layer_weights, X)
        IN  /\ pc = "idle"
            /\ ret' = [NoRet EXCEPT !.op = "predict_zero_one", !.X = X,
                                    !.err = out.err, !.val = out.val]
            /\ UNCHANGED <<pc, layer_weights, num_layers, frame, weights_idle,
                           weights_before, last_predict, trains>>

\* A gradients call that applies its last gradient to the last weight
\* matrix before it returns.
GradientsWritesWeights ==
    \E X \in Inputs, T \in Targets :
        LET out == gradients(layer_weights, X, T)
            n == Len(layer_weights)
            written == InPlaceSub(layer_weights[n], out.val[n])
        IN  /\ pc = "idle"
            /\ ret' = [NoRet EXCEPT !.op = "gradients", !.X = X, !.T = T,
                                    !.err = out.err, !.grads = out.val,
                                    !.steps = out.steps]
            /\ layer_weights' =
                   IF out.err = "none" /\ written.err = "none"
                   THEN [layer_weights EXCEPT ![n] = written.val]
                   ELSE layer_weights
            /\ UNCHANGED <<pc, num_layers, frame, weights_idle,
                           weights_before, last_predict, trains>>

Gradients ==
    \E X \in Inputs, T \in Targets :
        LET out == gradients(layer_weights, X, T)
        IN  /\ pc = "idle"
            /\ ret' = [NoRet EXCEPT !.op = "gradients", !.X = X, !.T = T,
                                    !.err = out.err, !.grads = out.val,
                                    !.steps = out.steps]
            /\ UNCHANGED <<pc, layer_weights, num_layers, frame, weights_idle,
                           weights_before, last_predict, trains>>

(* ------------------------------------------------------------------ *)
(* train                                                               *)
(* ------------------------------------------------------------------ *)

\* A loop that tests its count only after its first round.
MoreRoundsAfterFirst(completed, n) == completed < n \/ completed = 0

\* for _ in range(iterations): whether a round follows `completed` rounds.
MoreRounds(completed, n) == completed < n

TrainRet(err) ==
    [NoRet EXCEPT !.op = "train", !.X = input_matrix,
                  !.T = target_output_matrix, !.iterations = iterations,
                  !.learning_rate = learning_rate, !.err = err,
                  !.rounds = done]

\* train(input_matrix, target_output_matrix, iterations, learning_rate)
TrainCall ==
    \E X \in Inputs, T \in Targets, n \in Iterations, r \in LearningRates :
        /\ pc = "idle"
        /\ trains < MaxTrainCalls
        /\ pc' = "train_loop"
        /\ input_matrix' = X
        /\ target_output_matrix' = T
        /\ iterations' = n
        /\ learning_rate' = r
        /\ done' = 0
        /\ grads' = <<>>
        /\ trains' = trains + 1
        /\ weights_before' = layer_weights
        /\ last_predict' = NoPredict
        /\ ret' = NoRet
        /\ UNCHANGED <<layer_weights, num_layers, weights_idle>>

\* for _ in range(iterations): the next round begins with
\* grads = self.gradients(input_matrix, target_output_matrix)
TrainGradients ==
    LET out == gradients(layer_weights, input_matrix, target_output_matrix)
    IN  /\ pc = "train_loop"
        /\ MoreRounds(done, iterations)
        /\ IF out.err # "none"
           THEN /\ pc' = "idle"
                /\ ret' = TrainRet(out.err)
                /\ weights_idle' = layer_weights
                /\ NoFrame
           ELSE /\ pc' = "train_update"
                /\ grads' = out.val
                /\ UNCHANGED <<ret, input_matrix, target_output_matrix,
                               iterations, learning_rate, done, weights_idle>>
        /\ UNCHANGED <<layer_weights, num_layers, weights_before,
                       last_predict, trains>>

\* for i in range(len(self.layer_weights)):
\*     self.layer_weights[i] -= learning_rate * grads[i]
TrainUpdate ==
    LET upd == UpdateFrom(layer_weights, grads, learning_rate, 1)
    IN  /\ pc = "train_update"
        /\ layer_weights' = upd.ws
        /\ IF upd.err # "none"
           THEN /\ pc' = "idle"
                /\ ret' = TrainRet(upd.err)
                /\ weights_idle' = upd.ws
                /\ NoFrame
           ELSE /\ pc' = "train_loop"
                /\ done' = done + 1
                /\ grads' = <<>>
                /\ UNCHANGED <<ret, input_matrix, target_output_matrix,
                               iterations, learning_rate, weights_idle>>
        /\ UNCHANGED <<num_layers, weights_before, last_predict, trains>>

\* range(iterations) is exhausted: train returns None.
TrainReturn ==
    /\ pc = "train_loop"
    /\ ~MoreRounds(done, iterations)
    /\ pc' = "idle"
    /\ ret' = TrainRet("none")
    /\ weights_idle' = layer_weights
    /\ NoFrame
    /\ UNCHANGED <<layer_weights, num_layers, weights_before, last_predict,
                   trains>>

Next ==
    \/ ConstructExplicit
    \/ ConstructRandom
    \/ Predict
    \/ PredictZeroOne
    \/ Gradients
    \/ TrainCall
    \/ TrainGradients
    \/ TrainUpdate
    \/ TrainReturn

Spec == Init /\ [][Next]_vars

(* ------------------------------------------------------------------ *)
(* What the claims speak of                                            *)
(* ------------------------------------------------------------------ *)

\* Weight matrix k's column count equals weight matrix k-1's row count.
ChainCompatible(ws) == \A k \in 2..Len(ws) : ws[k].c = ws[k - 1].r

UnitsIn(ws) == ws[1].c
UnitsOut(ws) == ws[Len(ws)].r

\* A network with at least one weight matrix, chain-compatible, and an
\* input of shape (units_in, batch).
FitsNetwork(ws, X) ==
    /\ Len(ws) >= 1
    /\ ChainCompatible(ws)
    /\ X.r = UnitsIn(ws)

\* ... and a target of shape (units_out, batch).
ValidPair(ws, X, T) ==
    /\ FitsNetwork(ws, X)
    /\ Shape(T) = <<UnitsOut(ws), X.c>>

Max(a, b) == IF a >= b THEN a ELSE b

AllFinite(A) == \A i \in 1..A.r : \A j \in 1..A.c : A.d[i][j] # NaN

\* The gradient formula as the claim states it, by recursion on the layer:
\* the activation, pre-activation and delta of layer k (layer 0 the input).
RECURSIVE ClaimActivation(_, _, _)
ClaimActivation(ws, X, k) ==
    IF k = 0 THEN X
    ELSE sigmoid(Dot(ws[k], ClaimActivation(ws, X, k - 1)).val)

ClaimPreActivation(ws, X, k) == Dot(ws[k], ClaimActivation(ws, X, k - 1)).val

RECURSIVE ClaimDelta(_, _, _, _)
ClaimDelta(ws, X, T, k) ==
    IF k = Len(ws)
    THEN Elementwise(Elementwise(ClaimActivation(ws, X, k), T, FALSE).val,
                     sigmoid_derivative(ClaimPreActivation(ws, X, k)), TRUE).val
    ELSE Elementwise(Dot(Transpose(ws[k + 1]), ClaimDelta(ws, X, T, k + 1)).val,
                     sigmoid_derivative(ClaimPreActivation(ws, X, k)), TRUE).val

\* (2 / batch_size) * (delta_k . activation_(k-1)^T)
ClaimGradient(ws, X, T, k) ==
    TwiceOver(Dot(ClaimDelta(ws, X, T, k),
                  Transpose(ClaimActivation(ws, X, k - 1))).val, X.c)

(* ------------------------------------------------------------------ *)
(* Claims                                                              *)
(* ------------------------------------------------------------------ *)

\* C1: for a chain-compatible network with at least one weight matrix, an
\* input of shape (units_in, batch) with batch >= 1 and a target of shape
\* (units_out, batch), gradients returns one entry per weight matrix, entry
\* i has the shape of weight matrix i, and no entry is None.
C1_GradientShapes ==
    (/\ ret.op = "gradients"
     /\ ValidPair(layer_weights, ret.X, ret.T)
     /\ ret.X.c >= 1)
    => /\ ret.err = "none"
       /\ Len(ret.grads) = Len(layer_weights)
       /\ \A i \in 1..Len(layer_weights) :
            /\ ret.grads[i] # None
            /\ Shape(ret.grads[i]) = Shape(layer_weights[i])

\* A gradients call on a valid pair has returned for a network of two
\* weight matrices.
C1_Witness ==
    /\ ret.op = "gradients"
    /\ ValidPair(layer_weights, ret.X, ret.T)
    /\ ret.X.c >= 1
    /\ Len(layer_weights) = 2
    /\ Len(ret.grads) = 2

\* C2: train runs exactly n rounds (none for n < 0) and then returns, and
\* fails on no valid input; in each round the gradients are those of
\* gradients() on the weights as the round found them, which are not yet
\* written; then every weight matrix i becomes weights_i - r * gradient_i;
\* the number and the shapes of the weight matrices never change.
C2_TrainRounds ==
    [][ /\ (ret'.op = "train" /\ ret'.err = "none")
            => ret'.rounds = Max(ret'.iterations, 0)
        /\ (ret'.op = "train" /\ ValidPair(weights_before', ret'.X, ret'.T))
            => ret'.err = "none"
        /\ (pc = "train_loop" /\ pc' = "train_update")
            => /\ grads' = gradients(layer_weights, input_matrix,
                                     target_output_matrix).val
               /\ layer_weights' = layer_weights
        /\ (pc = "train_update" /\ pc' = "train_loop")
            => /\ done' = done + 1
               /\ \A i \in 1..Len(layer_weights) :
                    layer_weights'[i] =
                        Elementwise(layer_weights[i],
                                    Scale(learning_rate, grads[i]), FALSE).val
        /\ Len(layer_weights') = Len(weights_idle')
        /\ \A i \in 1..Len(layer_weights') :
             Shape(layer_weights'[i]) = Shape(weights_idle'[i])
      ]_vars

\* train has returned after two rounds on a network of two weight
\* matrices, and the weights have moved.
C2_Witness ==
    /\ ret.op = "train"
    /\ ret.err = "none"
    /\ ret.iterations = 2
    /\ ret.rounds = 2
    /\ Len(layer_weights) = 2
    /\ layer_weights # weights_before
    /\ \A i \in 1..2 : AllFinite(layer_weights[i])

\* C3: training with learning_rate = 0 leaves every entry of every weight
\* matrix unchanged, for any input, target and iteration count.
C3_ZeroRateKeepsWeights ==
    /\ (pc \in {"train_loop", "train_update"} /\ learning_rate = 0)
        => layer_weights = weights_before
    /\ (ret.op = "train" /\ ret.learning_rate = 0)
        => layer_weights = weights_before

\* C4: predict_zero_one(X) fails exactly when predict(X) does, and otherwise
\* has predict(X)'s shape, each entry 1 where predict(X)'s entry is >= 0.5
\* (0.5 itself included) and 0 elsewhere.
C4_ZeroOneIsThreshold ==
    ret.op = "predict_zero_one"
    => LET p == predict(layer_weights, ret.X)
       IN  /\ ret.err = p.err
           /\ p.err = "none"
               => /\ Shape(ret.val) = Shape(p.val)
                  /\ \A i \in 1..p.val.r : \A j \in 1..p.val.c :
                       /\ ret.val.d[i][j] \in {0, 1}
                       /\ ret.val.d[i][j] = 1
                            <=> (p.val.d[i][j] # NaN
                                 /\ p.val.d[i][j] >= ONE \div 2)

\* predict_zero_one has returned an array one of whose entries stands for a
\* prediction of exactly 0.5, and another for a prediction above it.
C4_Witness ==
    /\ ret.op = "predict_zero_one"
    /\ ret.err = "none"
    /\ LET p == predict(layer_weights, ret.X).val
       IN  /\ \E i \in 1..p.r : \E j \in 1..p.c :
                p.d[i][j] = ONE \div 2 /\ ret.val.d[i][j] = 1
           /\ \E i \in 1..p.r : \E j \in 1..p.c : p.d[i][j] > ONE \div 2

\* C5: predict, predict_zero_one and gradients write no weight matrix:
\* between construction, or a train call, and the next train call the
\* weights stay what they were; and a predict call given the input of the
\* predict call before it returns what that call returned.
C5_ReadsKeepWeights ==
    /\ pc = "idle"
        => /\ layer_weights = weights_idle
           /\ num_layers = Len(weights_idle) + 1
    /\ (ret.op = "predict" /\ ret.repeat)
        => /\ ret.err = "none"
           /\ ret.val = ret.before

\* After a gradients call (or others), predict has been called a second
\* time with the same input.
C5_Witness ==
    /\ ret.op = "predict"
    /\ ret.repeat
    /\ ret.X.c >= 1
    /\ trains = 1
    /\ Len(layer_weights) = 2

\* C6: SimpleNetwork.random with fewer than two layer sizes fails and
\* produces no network.
C6_RandomRejectsFewSizes ==
    (ret.op = "random" /\ Len(ret.units) < 2)
    => /\ ret.err # "none"
       /\ pc = "new"

\* C7: gradients on an empty batch fails; train on an empty batch fails and
\* never writes to the weights.
C7_EmptyBatchFails ==
    /\ (ret.op = "gradients" /\ ret.X.c = 0 /\ ret.T.c = 0)
        => ret.err # "none"
    /\ (ret.op = "train" /\ ret.X.c = 0 /\ ret.T.c = 0 /\ ret.iterations >= 1)
        => /\ ret.err # "none"
           /\ layer_weights = weights_before

\* C8: gradients with a target whose shape is not (units_out, batch) fails,
\* also where broadcasting would accept the shape (stated here for the
\* non-empty batches, where no other failure is in question).
C8_TargetShapeMismatchFails ==
    (/\ ret.op = "gradients"
     /\ FitsNetwork(layer_weights, ret.X)
     /\ ret.X.c >= 1
     /\ Shape(ret.T) # <<UnitsOut(layer_weights), ret.X.c>>)
    => ret.err # "none"

C10_GradientFormula ==
    (ret.op = "gradients" /\ ret.err = "none")
    => /\ Len(ret.grads) = Len(layer_weights)
       /\ \A i \in 1..Len(layer_weights) :
            ret.grads[i] = ClaimGradient(layer_weights, ret.X, ret.T, i)
       /\ ret.steps = Len(layer_weights) - 1

\* gradients has returned finite gradients with nonzero entries for a
\* network of two weight matrices.
C10_Witness ==
    /\ ret.op = "gradients"
    /\ ret.err = "none"
    /\ Len(layer_weights) = 2
    /\ ret.steps = 1
    /\ \A i \in 1..2 :
         /\ AllFinite(ret.grads[i])
         /\ \E a \in 1..ret.grads[i].r : \E b \in 1..ret.grads[i].c :
              ret.grads[i].d[a][b] # 0

====
